---- MODULE Spec2Model ----
(***************************************************************************)
(* A model of the ai-librarian document-chat application:                  *)
(*   - OpenAIService and VectorStoreService (src/src/services),            *)
(*   - the Index page with its handlers (src/unnamed/part_000),            *)
(*   - ApiKeySetup.handleSubmit (src/unnamed/part_001),                    *)
(*   - FileUpload.onDrop / removeFile and ChatInterface.handleSend         *)
(*     (src/src/components).                                               *)
(* A step of the model is one task of the event loop: a user event or the  *)
(* completion of a file read or of a network request, together with every  *)
(* continuation that resumes from it without waiting again. A call that    *)
(* waits is a record in uploads or sends that holds what the call has      *)
(* captured and how far it has come.                                       *)
(*                                                                         *)
(* A nullable reference is a sequence of length at most one: <<>> is null. *)
(***************************************************************************)
EXTENDS Integers, Sequences, FiniteSets, TLC

(***************************************************************************)
(* Bounds of the model.                                                    *)
(***************************************************************************)
MaxUploads == 2      \* uploadFiles calls started (ServiceSpec, PageSpec)
MaxChatUploads == 1  \* uploadFiles calls started (Spec)
MaxSends == 2        \* handleSend calls started (Spec)
MaxDirectSends == 1  \* sendMessage calls started (ServiceSpec)
MaxStores == 2       \* MemoryVectorStore instances created (ServiceSpec)

(***************************************************************************)
(* Program constants.                                                      *)
(***************************************************************************)
chunkSize == 1000
chunkOverlap == 200
SearchK == 6

StorageKey == "openai_api_key"

(***************************************************************************)
(* Strings.  TLC evaluates Len, \o and SubSeq on strings.                  *)
(***************************************************************************)
RECURSIVE Rep(_, _)
Rep(s, n) ==
    IF n = 0 THEN ""
    ELSE LET half == Rep(s, n \div 2)
         IN  half \o half \o (IF n % 2 = 1 THEN s ELSE "")

StartsWith(s, p) == Len(s) >= Len(p) /\ SubSeq(s, 1, Len(p)) = p

EndsWith(s, p) == Len(s) >= Len(p) /\ SubSeq(s, Len(s) - Len(p) + 1, Len(s)) = p

IsSpace(c) == c = " " \/ c = "\n"

RECURSIVE TrimStart(_)
TrimStart(s) ==
    IF s # "" /\ IsSpace(SubSeq(s, 1, 1)) THEN TrimStart(SubSeq(s, 2, Len(s))) ELSE s

RECURSIVE TrimEnd(_)
TrimEnd(s) ==
    IF s # "" /\ IsSpace(SubSeq(s, Len(s), Len(s)))
    THEN TrimEnd(SubSeq(s, 1, Len(s) - 1)) ELSE s

\* String.prototype.trim
Trim(s) == TrimEnd(TrimStart(s))

\* JavaScript's a || b on strings: the empty string is falsy
OrElse(a, b) == IF a # "" THEN a ELSE b

IsPrefix(s, t) == Len(s) <= Len(t) /\ SubSeq(t, 1, Len(s)) = s

Min(a, b) == IF a <= b THEN a ELSE b

(***************************************************************************)
(* Files.  A File is what the browser hands to the application: its name,  *)
(* its MIME type, and what reading it yields.  readable = FALSE stands for *)
(* a file whose read or parse raises (corrupt archive, FileReader.onerror);*)
(* pages are the text units the format library returns: the items of each  *)
(* PDF page, the text runs of each slide, the body of a DOCX or text file. *)
(***************************************************************************)
PDF == "application/pdf"
DOCX == "application/vnd.openxmlformats-officedocument.wordprocessingml.document"
PPTX == "application/vnd.openxmlformats-officedocument.presentationml.presentation"
TXT == "text/plain"
PY == "text/x-python"

LongText == Rep("0123456789", 340)

CorruptPdf == [name |-> "a.pdf",  type |-> PDF,  readable |-> FALSE, pages |-> <<>>]
EmptyDocx == [name |-> "b.docx", type |-> DOCX, readable |-> TRUE,  pages |-> <<>>]
UnreadableTxt == [name |-> "c.txt",  type |-> TXT,  readable |-> FALSE, pages |-> <<>>]
LongPy == [name |-> "d.py",   type |-> PY,   readable |-> TRUE,  pages |-> <<LongText>>]
Slides == [name |-> "e.pptx", type |-> PPTX, readable |-> TRUE,  pages |-> <<"slide one">>]

\* the batches of files a caller passes to uploadFiles
Batches ==
    { <<CorruptPdf, LongPy>>, <<UnreadableTxt, Slides>>, <<EmptyDocx>> }

\* the selections of files a user of the page drops at once
Selections == { <<Slides>>, <<CorruptPdf, Slides>>, <<UnreadableTxt>> }

RECURSIVE JoinLines(_)
JoinLines(pages) ==
    IF pages = <<>> THEN "" ELSE Head(pages) \o "\n" \o JoinLines(Tail(pages))

RECURSIVE Concat(_)
Concat(pages) == IF pages = <<>> THEN "" ELSE Head(pages) \o Concat(Tail(pages))

(***************************************************************************)
(* The result of one extraction promise.                                   *)
(***************************************************************************)
Pending == [state |-> "pending", value |-> ""]
Fulfilled(v) == [state |-> "fulfilled", value |-> v]
Rejected(e) == [state |-> "rejected", value |-> e]

extractPdfText(file) ==
    IF file.readable
    THEN Fulfilled(OrElse(JoinLines(file.pages),
                          "No text content found in PDF: " \o file.name))
    ELSE Fulfilled("Error extracting content from PDF: " \o file.name)

extractDocxText(file) ==
    IF file.readable
    THEN Fulfilled(Concat(file.pages))
    ELSE Fulfilled("Error extracting content from DOCX: " \o file.name)

extractPptxText(file) ==
    IF file.readable
    THEN Fulfilled(OrElse(JoinLines(file.pages),
                          "Unable to extract readable text from: " \o file.name))
    ELSE Fulfilled("Error extracting content from PPTX: " \o file.name)

\* new Promise(...) around FileReader.readAsText
readAsText(file) ==
    IF file.readable
    THEN Fulfilled(OrElse(Concat(file.pages), ""))
    ELSE Rejected("Failed to read file")

\* the body of the files.map callback of uploadFiles, for one UploadedFile
extractContent(f) ==
    IF f.file.type = PDF THEN extractPdfText(f.file)
    ELSE IF f.file.type = DOCX THEN extractDocxText(f.file)
    ELSE IF f.file.type = PPTX THEN extractPptxText(f.file)
    ELSE IF f.file.type = TXT \/ EndsWith(f.file.name, ".py") THEN readAsText(f.file)
    ELSE Fulfilled("Unsupported file type: " \o f.name)

(***************************************************************************)
(* VectorStoreService: the text splitter and the in-memory index.          *)
(***************************************************************************)
\* RecursiveCharacterTextSplitter on a text without separators: windows of
\* chunkSize characters, each starting chunkSize - chunkOverlap after the
\* previous one; every chunk is trimmed and an empty chunk is dropped.
RECURSIVE Windows(_, _)
Windows(text, start) ==
    IF start > Len(text) THEN <<>>
    ELSE LET end == Min(start + chunkSize - 1, Len(text))
         IN  <<Trim(SubSeq(text, start, end))>>
             \o (IF end >= Len(text) THEN <<>>
                 ELSE Windows(text, start + chunkSize - chunkOverlap))

createDocuments(text) == SelectSeq(Windows(text, 1), LAMBDA c : c # "")

\* chunks numbered from 1
docsWithMetadataFromOne(doc) ==
    LET chunks == createDocuments(doc.content)
    IN  [index \in 1..Len(chunks) |->
            [pageContent |-> chunks[index],
             metadata |-> [fileName |-> doc.name,
                           chunkIndex |-> index,
                           totalChunks |-> Len(chunks)]]]

\* the chunks of one document, with their metadata (addDocuments, loop body)
docsWithMetadata(doc) ==
    LET chunks == createDocuments(doc.content)
    IN  [index \in 1..Len(chunks) |->
            [pageContent |-> chunks[index],
             metadata |-> [fileName |-> doc.name,
                           chunkIndex |-> index - 1,
                           totalChunks |-> Len(chunks)]]]

RECURSIVE allDocs(_)
allDocs(documents) ==
    IF documents = <<>> THEN <<>>
    ELSE docsWithMetadata(Head(documents)) \o allDocs(Tail(documents))

\* allDocs is not empty: some document has a chunk
hasDocs(documents) ==
    \E i \in 1..Len(documents) : createDocuments(documents[i].content) # <<>>

\* A stand-in for the cosine similarity of the query's and the chunk's
\* embeddings: some fixed function of the two texts.
Similarity(query, doc) ==
    (7 * Len(query) + 3 * doc.metadata.chunkIndex + Len(doc.pageContent)) % 5

\* position of the first element of docs with the greatest similarity
FirstBest(query, docs) ==
    CHOOSE i \in 1..Len(docs) :
        /\ \A j \in 1..Len(docs) : Similarity(query, docs[j]) <= Similarity(query, docs[i])
        /\ \A j \in 1..(i - 1) : Similarity(query, docs[j]) < Similarity(query, docs[i])

RemoveAt(s, i) == SubSeq(s, 1, i - 1) \o SubSeq(s, i + 1, Len(s))

\* MemoryVectorStore.similaritySearchVectorWithScore: sort by similarity,
\* descending, and keep the first k
RECURSIVE similaritySearchVectorWithScore(_, _, _)
similaritySearchVectorWithScore(docs, query, k) ==
    IF k <= 0 \/ docs = <<>> THEN <<>>
    ELSE LET i == FirstBest(query, docs)
         IN  <<docs[i]>> \o similaritySearchVectorWithScore(RemoveAt(docs, i), query, k - 1)

\* searchSimilar after the query embedding has returned, on the documents
\* of the store the call holds
searchSimilarIgnoringK(docs, query, k) ==
    [i \in 1..Len(docs) |->
        [content |-> docs[i].pageContent, metadata |-> docs[i].metadata]]

searchSimilar(docs, query, k) ==
    LET results == similaritySearchVectorWithScore(docs, query, k)
    IN  [i \in 1..Len(results) |->
            [content |-> results[i].pageContent,
             metadata |-> [fileName |-> results[i].metadata.fileName,
                           chunkIndex |-> results[i].metadata.chunkIndex,
                           totalChunks |-> results[i].metadata.totalChunks]]]

(***************************************************************************)
(* State.                                                                  *)
(***************************************************************************)
VARIABLES
    \* OpenAIService
    client,              \* <<>> or <<apiKey>>
    fileContents,        \* sequence of [name, content]
    svcInstructions,     \* OpenAIService.systemInstructions
    \* VectorStoreService
    embeddings,          \* <<>> or <<apiKey>>
    vectorStore,         \* <<>> or <<k>>: the MemoryVectorStore stores[k]
    stores,              \* every MemoryVectorStore created: its documents
    \* calls in flight and settled
    uploads,             \* the uploadFiles calls, in the order they started
    sends,               \* the sendMessage / handleSend calls, likewise
    \* Index page
    localStorage,        \* function from the keys written to their values
    mounted,             \* the mount effect has run
    apiKey,
    openaiService,       \* an OpenAIService object exists
    uploadedFiles,
    systemInstructions,
    isLoading,
    activeTab,
    nextId,              \* source of crypto.randomUUID()
    \* ChatInterface
    messages             \* the mounted ChatInterface's list; <<>> when none is mounted

svcVars == <<client, fileContents, svcInstructions, embeddings, vectorStore, stores>>
pageVars == <<localStorage, mounted, apiKey, openaiService, uploadedFiles,
              systemInstructions, isLoading, activeTab, nextId>>
vars == <<client, fileContents, svcInstructions, embeddings, vectorStore, stores,
          uploads, sends, localStorage, mounted, apiKey, openaiService,
          uploadedFiles, systemInstructions, isLoading, activeTab, nextId, messages>>

DEFAULT_INSTRUCTIONS ==
    "You are a helpful AI assistant that analyzes documents and answers questions based on their content. \n"
    \o "\nGuidelines:\n"
    \o "- Always base your answers on the provided documents\n"
    \o "- If information isn't available in the documents, clearly state that\n"
    \o "- Provide detailed and accurate responses\n"
    \o "- Include relevant quotes or references when appropriate\n"
    \o "- Be concise but comprehensive in your explanations"
Instructions == {DEFAULT_INSTRUCTIONS, ""}
Questions == {"What is in d.py?"}

(***************************************************************************)
(* OpenAIService and VectorStoreService.                                   *)
(***************************************************************************)
\* VectorStoreService.isInitialized
isInitialized == vectorStore # <<>> /\ embeddings # <<>>

\* OpenAIService.isReady
isReady == client # <<>> /\ Len(fileContents) > 0

\* VectorStoreService.initialize: new embeddings, a new empty store
initialize(key) ==
    /\ embeddings' = <<key>>
    /\ stores' = Append(stores, <<>>)
    /\ vectorStore' = <<Len(stores) + 1>>

\* new OpenAIService(apiKey?)
constructService(key) ==
    /\ fileContents' = <<>>
    /\ svcInstructions' = ""
    /\ IF key # ""
       THEN client' = <<key>> /\ initialize(key)
       ELSE client' = <<>> /\ embeddings' = <<>> /\ vectorStore' = <<>> /\ stores' = <<>>

\* this.fileContents.push(...extractedFiles)
pushReplacing(contents, extractedFiles) == extractedFiles

push(contents, extractedFiles) == contents \o extractedFiles

\* what Promise.all(fileReadPromises) resolves to: one entry per file, in the
\* order of files
extractedFiles(u) ==
    [i \in 1..Len(u.files) |-> [name |-> u.files[i].name, content |-> u.results[i].value]]

\* Promise.all is fulfilled: every promise of the batch is
anyFulfilled(u) == \E i \in 1..Len(u.files) : u.results[i].state = "fulfilled"

allFulfilled(u) == \A i \in 1..Len(u.files) : u.results[i].state = "fulfilled"

\* an uploadFiles call before it starts; what is left of one whose caller
\* has finished with it
NoUpload ==
    [files |-> <<>>, results |-> <<>>, stage |-> "handled", error |-> "",
     store |-> 0, origin |-> "page", instructions |-> "", toast |-> ""]

\* OpenAIService.createAssistant / updateSystemInstructions
createAssistant(instr) == svcInstructions' = instr

updateSystemInstructions(instr) == svcInstructions' = instr

\* the chat TabsContent renders a ChatInterface
ChatShown(key, tab, files) == key # "" /\ tab = "chat" /\ Len(files) > 0

Greeting ==
    [role |-> "assistant",
     content |-> "Hello! I'm ready to help you analyze your uploaded documents. "
                 \o "Ask me anything about the content you've shared."]

\* the message list after a render with this tab and these files: a
\* ChatInterface that is newly mounted starts from the greeting
messagesAfter(tab, files) ==
    IF ChatShown(apiKey, tab, files) /\ ~ChatShown(apiKey, activeTab, uploadedFiles)
    THEN <<Greeting>>
    ELSE messages

\* the handleSend calls after that render: those of an unmounted
\* ChatInterface can no longer update a list
sendsAfter(tab, files) ==
    IF ChatShown(apiKey, activeTab, uploadedFiles) /\ ~ChatShown(apiKey, tab, files)
    THEN [s \in 1..Len(sends) |-> [sends[s] EXCEPT !.alive = FALSE]]
    ELSE sends

\* uploadFiles up to its first await: the client check, and files.map starting
\* one extraction per file
uploadFiles(files, origin, instr) ==
    [NoUpload EXCEPT
        !.files = files,
        !.results = [i \in 1..Len(files) |-> Pending],
        !.stage = IF client = <<>> THEN "rejected" ELSE "extracting",
        !.error = IF client = <<>> THEN "OpenAI client not initialized" ELSE "",
        !.origin = origin,
        !.instructions = instr]

\* handleFilesChange whose catch block leaves the loading flag set
handleFilesChangeResumesStillLoading(c, u) ==
    /\ IF u.stage = "resolved"
       THEN /\ isLoading' = FALSE
            /\ createAssistant(u.instructions)
            /\ activeTab' = "chat"
            /\ uploads' = [uploads EXCEPT
                   ![c] = [NoUpload EXCEPT !.toast = "Files processed successfully"]]
       ELSE /\ UNCHANGED <<isLoading, svcInstructions, activeTab>>
            /\ uploads' = [uploads EXCEPT
                   ![c] = [NoUpload EXCEPT !.toast = "Error processing files"]]
    /\ messages' = messagesAfter(activeTab', uploadedFiles)
    /\ sends' = sendsAfter(activeTab', uploadedFiles)

\* Index.handleFilesChange after await uploadFiles, for the call c that has
\* settled as u: createAssistant, the toast and the tab, or the catch block,
\* and the finally block. It runs in the step that settles the call.
handleFilesChangeResumes(c, u) ==
    /\ isLoading' = FALSE
    /\ IF u.stage = "resolved"
       THEN /\ createAssistant(u.instructions)
            /\ activeTab' = "chat"
            /\ uploads' = [uploads EXCEPT
                   ![c] = [NoUpload EXCEPT !.toast = "Files processed successfully"]]
       ELSE /\ UNCHANGED <<svcInstructions, activeTab>>
            /\ uploads' = [uploads EXCEPT
                   ![c] = [NoUpload EXCEPT !.toast = "Error processing files"]]
    /\ messages' = messagesAfter(activeTab', uploadedFiles)
    /\ sends' = sendsAfter(activeTab', uploadedFiles)

\* call c is still waiting after this step
UploadAwaits(c, u) ==
    /\ uploads' = [uploads EXCEPT ![c] = u]
    /\ UNCHANGED <<svcInstructions, isLoading, activeTab, messages, sends>>

\* call c settles as u in this step, and the caller that awaits it resumes
UploadReturns(c, u) ==
    IF u.origin = "page"
    THEN handleFilesChangeResumes(c, u)
    ELSE UploadAwaits(c, u)

\* one extraction of call c settles. A rejection rejects Promise.all at once;
\* the last fulfilment resolves it, and uploadFiles goes on to the push and
\* to addDocuments up to the embedding request
ExtractionSettles(c, i) ==
    /\ uploads[c].stage = "extracting"
    /\ uploads[c].results[i].state = "pending"
    /\ LET r == extractContent(uploads[c].files[i])
           u == [uploads[c] EXCEPT !.results[i] = r]
       IN  IF r.state = "rejected"
           THEN /\ UNCHANGED fileContents
                /\ UploadReturns(c, [u EXCEPT !.stage = "rejected", !.error = r.value])
           ELSE IF ~allFulfilled(u)
           THEN /\ UNCHANGED fileContents
                /\ UploadAwaits(c, u)
           ELSE /\ fileContents' = push(fileContents, extractedFiles(u))
                /\ IF isInitialized
                   THEN UploadAwaits(c, [u EXCEPT !.stage = "indexing",
                                                  !.store = vectorStore[1]])
                   ELSE UploadReturns(c, [u EXCEPT !.stage = "resolved"])
    /\ UNCHANGED <<client, embeddings, vectorStore, stores, localStorage, mounted,
                   apiKey, openaiService, uploadedFiles, systemInstructions, nextId>>

\* MemoryVectorStore.addDocuments settles: the chunks are embedded and stored,
\* or the embedding request fails; without a chunk there is no request
AddDocumentsSettles(c, ok) ==
    /\ uploads[c].stage = "indexing"
    /\ ok \/ hasDocs(extractedFiles(uploads[c]))
    /\ IF ok
       THEN /\ UploadReturns(c, [uploads[c] EXCEPT !.stage = "resolved"])
            /\ stores' = [stores EXCEPT ![uploads[c].store] =
                             @ \o allDocs(extractedFiles(uploads[c]))]
       ELSE /\ stores' = stores
            /\ UploadReturns(c, [uploads[c] EXCEPT
                                    !.stage = "rejected",
                                    !.error = "embedding request failed"])
    /\ UNCHANGED <<client, fileContents, embeddings, vectorStore, localStorage,
                   mounted, apiKey, openaiService, uploadedFiles,
                   systemInstructions, nextId>>

\* clearFiles with a clear that only drops the store
clearFilesDroppingStore ==
    /\ fileContents' = <<>>
    /\ stores' = stores /\ vectorStore' = <<>>
    /\ UNCHANGED <<client, svcInstructions, embeddings>>

\* OpenAIService.clearFiles, with VectorStoreService.clear
clearFiles ==
    /\ fileContents' = <<>>
    /\ IF embeddings # <<>>
       THEN stores' = Append(stores, <<>>) /\ vectorStore' = <<Len(stores) + 1>>
       ELSE stores' = stores /\ vectorStore' = <<>>
    /\ UNCHANGED <<client, svcInstructions, embeddings>>

\* OpenAIService.setApiKey
setApiKey(key) ==
    /\ client' = <<key>>
    /\ initialize(key)
    /\ UNCHANGED <<fileContents, svcInstructions>>

(***************************************************************************)
(* sendMessage.                                                            *)
(***************************************************************************)
NoResponse == "I apologize, but I was unable to generate a response."

\* the context of the system prompt: one section per chunk, in order
chunkSections(chunks) ==
    [i \in 1..Len(chunks) |->
        [fileName |-> chunks[i].metadata.fileName,
         chunkNo |-> chunks[i].metadata.chunkIndex + 1,
         totalChunks |-> chunks[i].metadata.totalChunks,
         content |-> chunks[i].content]]

\* the fallback context: one section per extracted file
fileSections(contents) ==
    [i \in 1..Len(contents) |->
        [fileName |-> contents[i].name, chunkNo |-> 0, totalChunks |-> 0,
         content |-> contents[i].content]]

\* the messages of the completion request
composePrompt(instr, context, message) ==
    [system |-> [instructions |-> instr, context |-> context], user |-> message]

NoPrompt == composePrompt("", <<>>, "")

\* the text the hosted model returns for a request
ModelReply(prompt) == "Re: " \o prompt.user

\* what sendMessage returns for the completion's text
returnedTextRaw(content) == content

returnedText(content) == OrElse(content, NoResponse)

\* a sendMessage call before it starts; what is left of one whose caller has
\* finished with it
NoSend ==
    [message |-> "", origin |-> "page", alive |-> FALSE, stage |-> "handled",
     error |-> "", store |-> 0, chunks |-> <<>>, requests |-> 0,
     prompt |-> NoPrompt, completion |-> "", result |-> ""]

\* sendMessage without its check of fileContents
sendMessageUnchecked(message, origin, alive) ==
    LET base == [NoSend EXCEPT !.message = message, !.origin = origin,
                               !.alive = alive, !.stage = "rejected"]
    IN  IF client = <<>>
        THEN [base EXCEPT !.error = "OpenAI client not initialized"]
        ELSE IF isInitialized
        THEN [base EXCEPT !.stage = "embedding", !.store = vectorStore[1]]
        ELSE [base EXCEPT !.stage = "completing", !.requests = 1,
                          !.prompt = composePrompt(svcInstructions,
                                         fileSections(fileContents), message)]

\* sendMessage up to its first await
sendMessage(message, origin, alive) ==
    LET base == [NoSend EXCEPT !.message = message, !.origin = origin,
                               !.alive = alive, !.stage = "rejected"]
    IN  IF client = <<>>
        THEN [base EXCEPT !.error = "OpenAI client not initialized"]
        ELSE IF Len(fileContents) = 0
        THEN [base EXCEPT !.error = "No files uploaded. Please upload documents first."]
        ELSE IF isInitialized
        THEN [base EXCEPT !.stage = "embedding", !.store = vectorStore[1]]
        ELSE [base EXCEPT !.stage = "completing", !.requests = 1,
                          !.prompt = composePrompt(svcInstructions,
                                         fileSections(fileContents), message)]

SendFailed ==
    "I apologize, but I encountered an error while processing your message. Please try again."

\* the assistant message handleSend appends for a call that has settled as r
assistantMessage(r) ==
    [role |-> "assistant",
     content |-> IF r.stage = "resolved" THEN r.result ELSE SendFailed]

\* ChatInterface.handleSend after await onSendMessage, for the call s that
\* has settled as r: the reply, or the fallback message of the catch block.
\* It runs in the step that settles the call.
handleSendResumes(s, r) ==
    /\ sends' = [sends EXCEPT ![s] = NoSend]
    /\ messages' = IF r.alive THEN Append(messages, assistantMessage(r)) ELSE messages

\* call s is still waiting after this step
SendAwaits(s, r) ==
    /\ sends' = [sends EXCEPT ![s] = r]
    /\ UNCHANGED messages

\* call s settles as r in this step, and the caller that awaits it resumes
SendReturns(s, r) ==
    IF r.origin = "page"
    THEN handleSendResumes(s, r)
    ELSE SendAwaits(s, r)

\* embedQuery settles; on success the similarity search runs on the store the
\* call holds, the prompt is composed and the completion request is issued
EmbedQuerySettles(s, ok) ==
    /\ sends[s].stage = "embedding"
    /\ IF ok
       THEN LET relevantChunks ==
                    searchSimilar(stores[sends[s].store], sends[s].message, SearchK)
            IN  SendAwaits(s, [sends[s] EXCEPT
                    !.stage = "completing",
                    !.chunks = relevantChunks,
                    !.requests = @ + 1,
                    !.prompt = composePrompt(svcInstructions,
                                   chunkSections(relevantChunks), sends[s].message)])
       ELSE SendReturns(s, [sends[s] EXCEPT !.stage = "rejected",
                                            !.error = "embedding request failed"])
    /\ UNCHANGED <<svcVars, uploads, pageVars>>

\* the completion request settles: a text, no text, or an error
CompletionSettles(s, outcome) ==
    /\ sends[s].stage = "completing"
    /\ LET content == IF outcome = "text" THEN ModelReply(sends[s].prompt) ELSE ""
       IN  IF outcome = "error"
           THEN SendReturns(s, [sends[s] EXCEPT !.stage = "rejected",
                                                !.error = "completion request failed"])
           ELSE SendReturns(s, [sends[s] EXCEPT !.stage = "resolved",
                                                !.completion = content,
                                                !.result = returnedText(content)])
    /\ UNCHANGED <<svcVars, uploads, pageVars>>

(***************************************************************************)
(* Calls of the service's public methods by a caller other than the page.  *)
(***************************************************************************)
AsUploaded(files) ==
    [i \in 1..Len(files) |->
        [id |-> i, name |-> files[i].name, type |-> files[i].type, file |-> files[i]]]

PageInit ==
    /\ mounted = FALSE
    /\ apiKey = ""
    /\ uploadedFiles = <<>>
    /\ systemInstructions = DEFAULT_INSTRUCTIONS
    /\ isLoading = FALSE
    /\ activeTab = "upload"
    /\ nextId = 1
    /\ messages = <<>>
    /\ uploads = <<>>
    /\ sends = <<>>

ServiceInit ==
    /\ PageInit
    /\ localStorage = <<>>
    /\ openaiService = TRUE
    /\ fileContents = <<>>
    /\ svcInstructions = ""
    /\ \/ client = <<>> /\ embeddings = <<>> /\ vectorStore = <<>> /\ stores = <<>>
       \/ client = <<"sk-a">> /\ embeddings = <<"sk-a">> /\ vectorStore = <<1>>
          /\ stores = << <<>> >>

CallUploadFiles ==
    /\ Len(uploads) < MaxUploads
    /\ \E files \in Batches :
          uploads' = Append(uploads, uploadFiles(AsUploaded(files), "direct", ""))
    /\ UNCHANGED <<svcVars, sends, pageVars, messages>>

CallCreateAssistant ==
    /\ \E instr \in Instructions : createAssistant(instr)
    /\ UNCHANGED <<client, fileContents, embeddings, vectorStore, stores,
                   uploads, sends, pageVars, messages>>

CallUpdateSystemInstructions ==
    /\ \E instr \in Instructions : updateSystemInstructions(instr)
    /\ UNCHANGED <<client, fileContents, embeddings, vectorStore, stores,
                   uploads, sends, pageVars, messages>>

CallSendMessage ==
    /\ Len(sends) < MaxDirectSends
    /\ \E message \in Questions :
          sends' = Append(sends, sendMessage(message, "direct", FALSE))
    /\ UNCHANGED <<svcVars, uploads, pageVars, messages>>

CallClearFiles ==
    /\ Len(stores) < MaxStores
    /\ clearFiles
    /\ UNCHANGED <<uploads, sends, pageVars, messages>>

CallSetApiKey ==
    /\ Len(stores) < MaxStores
    /\ setApiKey("sk-b")
    /\ UNCHANGED <<uploads, sends, pageVars, messages>>

(***************************************************************************)
(* The Index page, ApiKeySetup, FileUpload and ChatInterface.              *)
(***************************************************************************)
KeyInputs == {"   ", "sk-b ", " sk-b", "my key"}
ChatInputs == {"  ", " What is in d.py? "}

\* localStorage.getItem, null read as the empty string
getItem(k) == IF k \in DOMAIN localStorage THEN localStorage[k] ELSE ""

\* localStorage.setItem
setItem(k, v) ==
    [x \in DOMAIN localStorage \cup {k} |-> IF x = k THEN v ELSE localStorage[x]]

Init ==
    /\ PageInit
    /\ localStorage \in {<<>>, [k \in {StorageKey} |-> "sk-a"]}
    /\ openaiService = FALSE
    /\ client = <<>>
    /\ fileContents = <<>>
    /\ svcInstructions = ""
    /\ embeddings = <<>>
    /\ vectorStore = <<>>
    /\ stores = <<>>

\* the mount effect of Index
Mount ==
    /\ ~mounted
    /\ mounted' = TRUE
    /\ LET savedApiKey == getItem(StorageKey)
       IN  IF savedApiKey # ""
           THEN /\ apiKey' = savedApiKey
                /\ constructService(savedApiKey)
                /\ openaiService' = TRUE
           ELSE UNCHANGED <<apiKey, openaiService, svcVars>>
    /\ UNCHANGED <<localStorage, uploadedFiles, systemInstructions, isLoading,
                   activeTab, nextId, uploads, sends, messages>>

\* localStorage.setItem('openai_api_key', key) in handleApiKeySet
storeUnderOtherKey(key) == setItem("api_key", key)

storeKey(key) == setItem(StorageKey, key)

\* Index.handleApiKeySet
handleApiKeySet(key) ==
    /\ apiKey' = key
    /\ localStorage' = storeKey(key)
    /\ constructService(key)
    /\ openaiService' = TRUE

\* ApiKeySetup.handleSubmit; the form is rendered while apiKey is empty
HandleSubmit ==
    /\ mounted
    /\ apiKey = ""
    /\ \E input \in KeyInputs :
          /\ Trim(input) # ""
          /\ IF StartsWith(input, "sk-")
             THEN handleApiKeySet(Trim(input))
             ELSE UNCHANGED <<apiKey, localStorage, openaiService, svcVars>>
    /\ UNCHANGED <<mounted, uploadedFiles, systemInstructions, isLoading,
                   activeTab, nextId, uploads, sends, messages>>

\* Index.handleFilesChange up to its first await; a call that throws before
\* its first await is caught in the same step
handleFilesChange(files) ==
    /\ uploadedFiles' = files
    /\ IF Len(files) > 0 /\ openaiService
       THEN LET u == uploadFiles(files, "page", systemInstructions)
            IN  IF u.stage = "rejected"
                THEN /\ isLoading' = FALSE
                     /\ uploads' = Append(uploads,
                            [NoUpload EXCEPT !.toast = "Error processing files"])
                ELSE /\ isLoading' = TRUE
                     /\ uploads' = Append(uploads, u)
       ELSE UNCHANGED <<isLoading, uploads>>
    /\ messages' = messagesAfter(activeTab, files)
    /\ sends' = sendsAfter(activeTab, files)

\* FileUpload.onDrop
newFiles(acceptedFiles) ==
    [i \in 1..Len(acceptedFiles) |->
        [id |-> nextId + i - 1, name |-> acceptedFiles[i].name,
         type |-> acceptedFiles[i].type, file |-> acceptedFiles[i]]]

OnDrop(limit) ==
    /\ mounted /\ apiKey # "" /\ activeTab = "upload"
    /\ Len(uploads) < limit
    /\ \E acceptedFiles \in Selections :
          /\ handleFilesChange(uploadedFiles \o newFiles(acceptedFiles))
          /\ nextId' = nextId + Len(acceptedFiles)
    /\ UNCHANGED <<svcVars, localStorage, mounted, apiKey, openaiService,
                   systemInstructions, activeTab>>

\* FileUpload.removeFile
withoutName(files, fileId) ==
    LET gone == {files[i].name : i \in {j \in 1..Len(files) : files[j].id = fileId}}
    IN  SelectSeq(files, LAMBDA file : file.name \notin gone)

without(files, fileId) == SelectSeq(files, LAMBDA file : file.id # fileId)

RemoveFile(fileId, limit) ==
    /\ mounted /\ apiKey # "" /\ activeTab = "upload"
    /\ \E i \in 1..Len(uploadedFiles) : uploadedFiles[i].id = fileId
    /\ Len(without(uploadedFiles, fileId)) > 0 => Len(uploads) < limit
    /\ handleFilesChange(without(uploadedFiles, fileId))
    /\ UNCHANGED <<svcVars, localStorage, mounted, apiKey, openaiService,
                   systemInstructions, activeTab, nextId>>

\* Tabs onValueChange; the chat trigger is disabled while no file is listed
SwitchTab(tab) ==
    /\ mounted /\ apiKey # ""
    /\ tab # activeTab
    /\ tab = "chat" => Len(uploadedFiles) > 0
    /\ activeTab' = tab
    /\ messages' = messagesAfter(tab, uploadedFiles)
    /\ sends' = sendsAfter(tab, uploadedFiles)
    /\ UNCHANGED <<svcVars, uploads, localStorage, mounted, apiKey, openaiService,
                   uploadedFiles, systemInstructions, isLoading, nextId>>

\* Index.handleSystemInstructionsChange
HandleSystemInstructionsChange(instr) ==
    /\ mounted /\ apiKey # "" /\ activeTab = "settings"
    /\ systemInstructions' = instr
    /\ IF openaiService /\ isReady
       THEN updateSystemInstructions(instr)
       ELSE UNCHANGED svcInstructions
    /\ UNCHANGED <<client, fileContents, embeddings, vectorStore, stores, uploads,
                   sends, localStorage, mounted, apiKey, openaiService,
                   uploadedFiles, isLoading, activeTab, nextId, messages>>

\* Index.handleSendMessage up to its first await
handleSendMessage(message) ==
    LET thrown(e) ==
            [NoSend EXCEPT !.message = message, !.alive = TRUE,
                           !.stage = "rejected", !.error = e]
    IN  IF ~openaiService
        THEN thrown("OpenAI service not initialized")
        ELSE IF ~isReady
        THEN thrown("Assistant not ready. Please upload files first.")
        ELSE sendMessage(message, "page", TRUE)

\* ChatInterface.handleSend up to its first await; a call that throws before
\* its first await is caught in the same step
HandleSend ==
    /\ mounted /\ ChatShown(apiKey, activeTab, uploadedFiles)
    /\ Len(sends) < MaxSends
    /\ \E input \in ChatInputs :
          /\ ~(Trim(input) = "" \/ isLoading)
          /\ LET userMessage == [role |-> "user", content |-> Trim(input)]
                 r == handleSendMessage(Trim(input))
             IN  IF r.stage = "rejected"
                 THEN /\ messages' = messages \o <<userMessage, assistantMessage(r)>>
                      /\ sends' = Append(sends, NoSend)
                 ELSE /\ messages' = Append(messages, userMessage)
                      /\ sends' = Append(sends, r)
    /\ UNCHANGED <<svcVars, uploads, pageVars>>

\* the steps of the calls in flight
UploadSettle ==
    \/ \E c \in 1..Len(uploads) : \E i \in 1..Len(uploads[c].files) : ExtractionSettles(c, i)
    \/ \E c \in 1..Len(uploads) : \E ok \in BOOLEAN : AddDocumentsSettles(c, ok)

SendSettle ==
    \/ \E s \in 1..Len(sends) : \E ok \in BOOLEAN : EmbedQuerySettles(s, ok)
    \/ \E s \in 1..Len(sends) : \E outcome \in {"text", "empty", "error"} :
           CompletionSettles(s, outcome)

(***************************************************************************)
(* The service driven through its public methods.                          *)
(***************************************************************************)
ServiceNext ==
    \/ CallUploadFiles
    \/ CallCreateAssistant
    \/ CallUpdateSystemInstructions
    \/ CallSendMessage
    \/ CallClearFiles
    \/ CallSetApiKey
    \/ UploadSettle
    \/ SendSettle

ServiceSpec == ServiceInit /\ [][ServiceNext]_vars

(***************************************************************************)
(* The page without its chat: sendMessage changes no state of the service  *)
(* or of the page, so what holds of the files, the key, the instructions   *)
(* and the loading flag here holds with the chat running beside it.        *)
(***************************************************************************)
PageNext ==
    \/ Mount
    \/ HandleSubmit
    \/ OnDrop(MaxUploads)
    \/ \E fileId \in 1..(nextId - 1) : RemoveFile(fileId, MaxUploads)
    \/ \E tab \in {"upload", "settings", "chat"} : SwitchTab(tab)
    \/ \E instr \in Instructions : HandleSystemInstructionsChange(instr)
    \/ UploadSettle

PageSpec == Init /\ [][PageNext]_vars

\* every file read and every request settles: a call that waits is resumed
PageFairSpec == PageSpec /\ WF_vars(UploadSettle)

(***************************************************************************)
(* The whole application.                                                  *)
(***************************************************************************)
Next ==
    \/ Mount
    \/ HandleSubmit
    \/ OnDrop(MaxChatUploads)
    \/ \E fileId \in 1..(nextId - 1) : RemoveFile(fileId, MaxChatUploads)
    \/ \E tab \in {"upload", "settings", "chat"} : SwitchTab(tab)
    \/ \E instr \in Instructions : HandleSystemInstructionsChange(instr)
    \/ HandleSend
    \/ UploadSettle
    \/ SendSettle

Spec == Init /\ [][Next]_vars

(***************************************************************************)
(* Claims.                                                                 *)
(***************************************************************************)
Uploads == 1..Len(uploads)
Sends == 1..Len(sends)

\* C1 (as claimed): whenever the extraction of a file of a batch has failed,
\* its promise is fulfilled with a non-empty placeholder, and the uploadFiles
\* call is not rejected by the failed read.
C1_ExtractionFailureDoesNotAbort ==
    \A c \in Uploads : \A i \in 1..Len(uploads[c].files) :
        (~uploads[c].files[i].file.readable /\ uploads[c].results[i].state # "pending")
        => /\ uploads[c].results[i].state = "fulfilled"
           /\ uploads[c].results[i].value # ""
           /\ uploads[c].error # "Failed to read file"

\* C2: searchSimilar(query, k) returns at most k chunks for every query, every
\* k and every content of a store, and the chunks and the context of every
\* sendMessage call number at most 6.
C2_AtMostKChunks ==
    /\ \A st \in 1..Len(stores) : \A query \in Questions : \A k \in 0..(SearchK + 1) :
           Len(searchSimilar(stores[st], query, k)) <= k
    /\ \A s \in Sends :
           /\ Len(sends[s].chunks) <= SearchK
           /\ Len(sends[s].prompt.system.context) <= SearchK

\* a sendMessage call has retrieved 6 chunks from a store that holds more
C2_Witness ==
    \E s \in Sends :
        /\ sends[s].stage = "completing"
        /\ Len(stores[sends[s].store]) > SearchK
        /\ Len(sends[s].chunks) = SearchK

\* C3 (as claimed): every content stored in fileContents is a non-empty string.
C3_StoredContentNonEmpty ==
    \A i \in 1..Len(fileContents) : fileContents[i].content # ""

\* an index of some store has changed in this step
IndexChanged ==
    \E st \in 1..Len(stores) : stores'[st] # stores[st]

\* C6: a step that appends to fileContents appends the entries of one batch
\* whose extractions have all finished, one entry per file in the order of
\* the files, each with the content its extraction produced; and a step that
\* adds to an index adds the chunks of a batch whose extractions have all
\* finished and whose entries are in fileContents already.
C6_Step ==
    /\ (fileContents' # fileContents /\ fileContents' # <<>>)
       => \E c \in Uploads :
            LET u == uploads[c]
                n == Len(fileContents)
            IN  /\ u.stage = "extracting" /\ uploads'[c].stage # "extracting"
                /\ \A i \in 1..Len(u.files) : uploads'[c].results[i].state = "fulfilled"
                /\ ~IndexChanged
                /\ Len(fileContents') = n + Len(u.files)
                /\ SubSeq(fileContents', 1, n) = fileContents
                /\ \A i \in 1..Len(u.files) :
                       /\ fileContents'[n + i].name = u.files[i].name
                       /\ fileContents'[n + i].content = uploads'[c].results[i].value
                       /\ fileContents'[n + i].content = extractContent(u.files[i]).value
    /\ IndexChanged
       => \E c \in Uploads :
            /\ uploads[c].stage = "indexing"
            /\ \A i \in 1..Len(uploads[c].files) : uploads[c].results[i].state = "fulfilled"

C6_JoinedInInputOrder == [][C6_Step]_vars

\* the two entries of a batch of two files are in fileContents and in the index
C6_Witness ==
    \E c \in Uploads :
        /\ Len(uploads[c].files) = 2
        /\ uploads[c].stage = "resolved"
        /\ Len(fileContents) >= 2
        /\ Len(stores[uploads[c].store]) >= 2

\* the prompt of call s is composed from these instructions and exactly the
\* chunks the call retrieved, for the call's message
ComposedFrom(call, instr) ==
    /\ call.prompt.system.instructions = instr
    /\ call.prompt.user = call.message
    /\ Len(call.prompt.system.context) = Len(call.chunks)
    /\ \A i \in 1..Len(call.chunks) :
           /\ call.prompt.system.context[i].content = call.chunks[i].content
           /\ call.prompt.system.context[i].fileName = call.chunks[i].metadata.fileName
           /\ call.prompt.system.context[i].chunkNo = call.chunks[i].metadata.chunkIndex + 1
           /\ call.prompt.system.context[i].totalChunks = call.chunks[i].metadata.totalChunks

\* every retrieved chunk is a document of the store the call searched
RetrievedFrom(call, docs) ==
    \A i \in 1..Len(call.chunks) :
        \E d \in 1..Len(docs) :
            /\ docs[d].pageContent = call.chunks[i].content
            /\ docs[d].metadata = call.chunks[i].metadata

\* the steps of one sendMessage call follow each other in the order embed
\* query, retrieve, compose, call the model, return
C7_Order ==
    \A s \in Sends :
        LET before == sends[s]
            after == sends'[s]
        IN  /\ before.stage = "embedding"
               => /\ before.requests = 0 /\ before.prompt = NoPrompt
                  /\ after.stage \in {"embedding", "completing", "rejected"}
            /\ (before.stage = "embedding" /\ after.stage = "completing")
               => /\ after.requests = 1
                  /\ RetrievedFrom(after, stores[before.store])
                  /\ ComposedFrom(after, svcInstructions)
            /\ before.stage = "completing"
               => /\ after.stage \in {"completing", "resolved", "rejected"}
                  /\ after.requests = 1 /\ after.prompt = before.prompt
            /\ (before.stage = "completing" /\ after.stage = "resolved")
               => after.completion \in {"", ModelReply(before.prompt)}
            /\ before.stage \in {"resolved", "rejected"}
               => after = before

\* C7 (as claimed): the text a sendMessage call returns is the text of its
\* completion.
C7_ReturnsCompletionText ==
    \A s \in Sends :
        sends[s].stage = "resolved" => sends[s].result = sends[s].completion

\* C7 (amended): the steps of a sendMessage call occur in the order embed
\* query, retrieve, compose, call model, return; the one completion request is
\* issued after retrieval, with a prompt composed from the stored instructions
\* and exactly the retrieved chunks; the text returned is the completion's
\* text, or the fixed no-response text when the completion carries no text.
C7_LinearAndReturnsTextOrNoResponse ==
    /\ [][C7_Order]_vars
    /\ [](\A s \in Sends :
            sends[s].stage = "resolved"
            => sends[s].result = IF sends[s].completion # ""
                                 THEN sends[s].completion ELSE NoResponse)

\* a call has returned the no-response text for a completion without text,
\* after retrieving chunks
C7_Witness ==
    \E s \in Sends :
        /\ sends[s].stage = "resolved"
        /\ sends[s].completion = ""
        /\ sends[s].result = NoResponse
        /\ Len(sends[s].chunks) > 0
        /\ sends[s].prompt.system.instructions = DEFAULT_INSTRUCTIONS

\* C10: a step either keeps every entry of fileContents as it is, at its
\* position (entries are only appended), or it is clearFiles and empties the
\* list.
C10_Step ==
    \/ IsPrefix(fileContents, fileContents')
    \/ CallClearFiles /\ fileContents' = <<>>

C10_EntriesImmutable == [][C10_Step]_vars

\* a second uploadFiles call has appended its entries after those of a first
C10_Witness ==
    /\ Len(uploads) = 2
    /\ \A c \in Uploads : uploads[c].stage \in {"indexing", "resolved"}
    /\ Len(fileContents) = Len(uploads[1].files) + Len(uploads[2].files)
    /\ svcInstructions # ""

\* C4 (as claimed): the chat message list is append-only: every step keeps
\* each message at its position, with its role and content.
C4_AppendOnly == [][IsPrefix(messages, messages')]_vars

\* the call s of handleSend finishes in this step
Finishes(s) ==
    /\ sends[s].origin = "page"
    /\ sends[s].stage \in {"embedding", "completing"}
    /\ sends'[s].stage = "handled"

\* C5 (as claimed): the step in which a handleSend call finishes appends
\* exactly one assistant message for it: the text the call returned when it
\* succeeded, the fallback message when it raised an error; and no call ever
\* issues more than one completion request.
C5_Step ==
    /\ \A s \in Sends :
          Finishes(s)
          => \E content \in {ModelReply(sends[s].prompt), NoResponse, SendFailed} :
                messages' = Append(messages, [role |-> "assistant", content |-> content])
    /\ \A s \in 1..Len(sends') : sends'[s].requests <= 1

C5_OneAssistantMessagePerSend == [][C5_Step]_vars

\* the ids of the listed files
Ids(files) == {files[i].id : i \in 1..Len(files)}

\* C8: a step that changes the list of uploaded files either appends one new
\* entry per file of the dropped selection, in order, each with a new id,
\* after the existing entries, or removes exactly one entry and leaves the
\* others as they are, in their order; ids are never shared.
C8_Step ==
    uploadedFiles' # uploadedFiles
    => \/ \E acceptedFiles \in Selections :
            LET n == Len(uploadedFiles)
            IN  /\ Len(uploadedFiles') = n + Len(acceptedFiles)
                /\ SubSeq(uploadedFiles', 1, n) = uploadedFiles
                /\ \A i \in 1..Len(acceptedFiles) :
                       /\ uploadedFiles'[n + i].file = acceptedFiles[i]
                       /\ uploadedFiles'[n + i].name = acceptedFiles[i].name
                       /\ uploadedFiles'[n + i].id \notin Ids(uploadedFiles)
                /\ Cardinality(Ids(uploadedFiles')) = Len(uploadedFiles')
       \/ \E i \in 1..Len(uploadedFiles) :
            /\ uploadedFiles' = RemoveAt(uploadedFiles, i)
            /\ uploadedFiles[i].id \notin Ids(uploadedFiles')

C8_DropAppendsRemoveRemovesOne == [][C8_Step]_vars

\* the first of two listed files has been removed
C8_Witness ==
    /\ Len(uploadedFiles) = 1
    /\ uploadedFiles[1].id = 2
    /\ Len(uploads) = 2

\* C9: after mount, a non-empty apiKey is the string local storage holds under
\* 'openai_api_key', an OpenAIService built with it exists, and no other key
\* of local storage has been written.
C9_KeyStoredUnderFixedKey ==
    mounted
    => /\ DOMAIN localStorage \subseteq {StorageKey}
       /\ apiKey # ""
          => /\ getItem(StorageKey) = apiKey
             /\ openaiService
             /\ client = <<apiKey>>
             /\ embeddings = <<apiKey>>

\* the key entered in the form, trimmed, is the page's key and the stored one
C9_Witness ==
    /\ mounted
    /\ apiKey = "sk-b"
    /\ getItem(StorageKey) = "sk-b"
    /\ Len(fileContents) > 0

\* the documents at positions first .. first + total - 1 of docs are the
\* chunks 0 .. total - 1 of one extracted file of some uploadFiles call
ChunksOfOneDocument(docs, first, total) ==
    /\ first >= 1 /\ first + total - 1 <= Len(docs)
    /\ \E c \in Uploads : \E i \in 1..Len(uploads[c].files) :
          LET chunks == createDocuments(uploads[c].results[i].value)
          IN  /\ uploads[c].results[i].state = "fulfilled"
              /\ Len(chunks) = total
              /\ \A j \in 0..(total - 1) :
                    /\ docs[first + j].metadata.fileName = uploads[c].files[i].name
                    /\ docs[first + j].metadata.chunkIndex = j
                    /\ docs[first + j].metadata.totalChunks = total
                    /\ docs[first + j].pageContent = chunks[j + 1]

\* C11: every chunk of every index carries the name of the file it was
\* derived from and has 0 <= chunkIndex < totalChunks; it stands in a run of
\* totalChunks chunks of that file with the indices 0 .. totalChunks - 1,
\* each once; and every section label of a prompt of sendMessage has
\* 1 <= chunk number <= total.
C11_ChunkMetadataConsistent ==
    /\ \A st \in 1..Len(stores) : \A p \in 1..Len(stores[st]) :
          LET m == stores[st][p].metadata
          IN  /\ 0 <= m.chunkIndex /\ m.chunkIndex < m.totalChunks
              /\ ChunksOfOneDocument(stores[st], p - m.chunkIndex, m.totalChunks)
    /\ \A s \in Sends : \A i \in 1..Len(sends[s].chunks) :
          LET section == sends[s].prompt.system.context[i]
          IN  sends[s].stage \in {"completing", "resolved"}
              => /\ 1 <= section.chunkNo /\ section.chunkNo <= section.totalChunks
                 /\ section.fileName = sends[s].chunks[i].metadata.fileName

\* an index holds the four chunks of d.py and a prompt is labelled with the
\* last of them
C11_Witness ==
    /\ \E st \in 1..Len(stores) : \E p \in 1..Len(stores[st]) :
          /\ stores[st][p].metadata.fileName = "d.py"
          /\ stores[st][p].metadata.chunkIndex = 3
          /\ stores[st][p].metadata.totalChunks = 4
    /\ \E s \in Sends : \E i \in 1..Len(sends[s].prompt.system.context) :
          /\ sends[s].prompt.system.context[i].chunkNo = 4
          /\ sends[s].prompt.system.context[i].totalChunks = 4

\* a call that has thrown before any request: no embedding request is
\* waiting, no completion request has been issued
ThrownBeforeAnyRequest(r) ==
    /\ r.stage = "rejected" /\ r.error # ""
    /\ r.requests = 0 /\ r.chunks = <<>> /\ r.prompt = NoPrompt

\* a handleSend call starts in this step
SendStarts == Len(sends') = Len(sends) + 1

\* C12: while the service is not ready (no client, or fileContents empty),
\* sendMessage and handleSendMessage throw before any embedding or completion
\* request; and a step in which handleSend is accepted then changes no state
\* of the service, leaves no call waiting, and appends the user message
\* followed by the fallback assistant message.
C12_Step ==
    (SendStarts /\ ~isReady)
    => /\ svcVars' = svcVars
       /\ sends'[Len(sends')].stage = "handled"
       /\ sends'[Len(sends')].requests = 0
       /\ \E input \in ChatInputs :
             messages' = messages
                 \o << [role |-> "user", content |-> Trim(input)],
                       [role |-> "assistant", content |-> SendFailed] >>

C12_NotReadyFailsBeforeAnyRequest ==
    /\ [](~isReady
          => \A message \in Questions :
                /\ ThrownBeforeAnyRequest(sendMessage(message, "page", TRUE))
                /\ ThrownBeforeAnyRequest(handleSendMessage(message)))
    /\ [][C12_Step]_vars

\* a message sent after a failed upload, with nothing in fileContents, has
\* got the fallback message
C12_Witness ==
    /\ client # <<>> /\ fileContents = <<>>
    /\ Len(sends) = 1 /\ sends[1].stage = "handled"
    /\ Len(messages) = 3
    /\ messages[2].role = "user"
    /\ messages[3] = [role |-> "assistant", content |-> SendFailed]

\* the handleFilesChange call c finishes in this step
UploadFinishes(c) ==
    /\ uploads[c].origin = "page"
    /\ uploads[c].stage \in {"extracting", "indexing"}
    /\ uploads'[c].stage = "handled"

\* uploadFiles of call c resolves in this step: its last extraction is
\* fulfilled with no index to fill, or addDocuments succeeds
UploadSucceeds(c) ==
    \/ uploads[c].stage = "indexing" /\ stores' # stores
    \/ uploads[c].stage = "extracting" /\ fileContents' # fileContents

\* C13: the step in which a handleFilesChange call finishes leaves isLoading
\* false and shows exactly one notification: the success notification, with
\* the active tab 'chat', when uploadFiles resolved; the error notification,
\* with the active tab as it was, when uploadFiles rejected. Every call that
\* has started finishes.
C13_Step ==
    \A c \in Uploads :
        UploadFinishes(c)
        => /\ isLoading' = FALSE
           /\ IF UploadSucceeds(c)
              THEN /\ uploads'[c].toast = "Files processed successfully"
                   /\ activeTab' = "chat"
              ELSE /\ uploads'[c].toast = "Error processing files"
                   /\ activeTab' = activeTab

C13_HandleFilesChangeFinishes ==
    /\ [][C13_Step]_vars
    /\ \A c \in 1..MaxUploads :
          (c <= Len(uploads)) ~> (c <= Len(uploads) /\ uploads[c].stage = "handled")

\* one call has finished with the success notification and another with the
\* error notification
C13_Witness ==
    /\ Len(uploads) = 2
    /\ uploads[1].toast = "Error processing files"
    /\ uploads[2].toast = "Files processed successfully"
    /\ ~isLoading /\ activeTab = "chat"

\* every handleFilesChange call has finished, each with success
AllProcessed ==
    /\ Len(uploads) > 0
    /\ \A c \in Uploads :
          uploads[c].stage = "handled" /\ uploads[c].toast = "Files processed successfully"

\* C14 (as claimed): once the processing of every addition and removal has
\* completed successfully, fileContents holds exactly one entry per listed
\* file, in the order of the list.
C14_OneEntryPerListedFile ==
    AllProcessed
    => /\ Len(fileContents) = Len(uploadedFiles)
       /\ \A i \in 1..Len(uploadedFiles) : fileContents[i].name = uploadedFiles[i].name

\* the handleSend calls that wait for onSendMessage
Waiting == {s \in Sends : sends[s].stage \in {"embedding", "completing"}}

\* C15 (as claimed): at most one handleSend call waits for its response, and
\* after the greeting the message list alternates user message, assistant
\* message.
C15_OneSendAtATime ==
    /\ Cardinality(Waiting) <= 1
    /\ \A i \in 2..Len(messages) :
          messages[i].role = IF i % 2 = 0 THEN "user" ELSE "assistant"

\* C16 (as claimed): a rejected uploadFiles call leaves fileContents and the
\* index as they were before the call: while every call made so far has been
\* rejected, fileContents and every index are empty and isReady is false.
C16_RejectedUploadLeavesNothing ==
    (\A c \in Uploads : uploads[c].stage = "rejected")
    => /\ fileContents = <<>>
       /\ \A st \in 1..Len(stores) : stores[st] = <<>>
       /\ ~isReady

\* the call has passed the checks of sendMessage
PassedChecks(call) ==
    \/ call.stage \in {"embedding", "completing", "resolved"}
    \/ call.error \in {"embedding request failed", "completion request failed"}

\* C17: whenever the service has a client its vector store is initialized;
\* and every sendMessage call that has passed the precondition checks builds
\* its context by semantic search on a store, never from the full documents.
C17_ClientImpliesInitialized ==
    /\ client # <<>> => isInitialized
    /\ \A s \in Sends :
          PassedChecks(sends[s])
          => /\ sends[s].store \in 1..Len(stores)
             /\ sends[s].stage \in {"completing", "resolved"}
                => sends[s].prompt.system.context = chunkSections(sends[s].chunks)

\* after setApiKey or clearFiles has replaced the store, a call has searched
\* the new store and issued its completion request
C17_Witness ==
    /\ client # <<>> /\ Len(stores) = 2
    /\ \E s \in Sends :
          /\ sends[s].stage = "completing"
          /\ sends[s].store = 2
          /\ Len(sends[s].chunks) > 0

\* the uploadFiles calls started by handleFilesChange that are in flight
InFlight == {c \in Uploads : uploads[c].stage \in {"extracting", "indexing"}}

\* C18 (as claimed): isLoading is true exactly while some uploadFiles call
\* started by handleFilesChange is in flight.
C18_LoadingWhileInFlight == isLoading <=> InFlight # {}

\* C19 (as claimed): once every handleFilesChange call has finished with
\* success and the service is ready, the instructions the service holds are
\* the instructions shown in the settings.
C19_InstructionsInSync ==
    (AllProcessed /\ openaiService /\ isReady)
    => svcInstructions = systemInstructions

====
